---- MODULE Spec2Model ----
(***************************************************************************)
(* PackBits run-length codec (packbits.c): packbits, unpackbits and        *)
(* unpackbits_window as operators over byte sequences, and the calls a     *)
(* caller makes on them as the actions of a state machine.                 *)
(*                                                                         *)
(* A buffer is a sequence of bytes; C pointers are 1-based indices into    *)
(* it.  A destination is the sequence of bytes written so far: every       *)
(* function writes its destination front to back without gaps.             *)
(***************************************************************************)
EXTENDS Integers, Sequences, FiniteSets, TLC

\* ------------------------------------------------------------------------
\* Bounds of the model
\* ------------------------------------------------------------------------

\* Largest number of pieces (runs, ramps, chunks) an input is built from.
MaxPieces == 3

\* Destination limits 0..MaxLimit are tried exhaustively.
MaxLimit == 4

\* Largest number of blocks data is cut into for block-wise packing.
MaxBlocks == 3

\* ------------------------------------------------------------------------
\* Integer widths
\* ------------------------------------------------------------------------

U8(x) == x % 256

U16(x) == x % 65536

\* ------------------------------------------------------------------------
\* Program constants and header macros
\* ------------------------------------------------------------------------

MIN_REPT == 3

MAX_REPT == 128

MAX_DIFF == 128

\* A literal header that holds the count itself.
ENCODE_DIFF_OffByOne(n) == U8(n)

ENCODE_DIFF(n) == U8(n - 1)

\* A repeat header that is one short: a run of 128 gets the header 128.
ENCODE_REPT_OffByOne(n) == U8(0 - n)

ENCODE_REPT(n) == U8(1 - n)

IS_DIFF(h) == h < 128

\* A repeat test that takes the header 128 for a repeat header.
IS_REPT_IncludesNoOp(h) == h >= 128

IS_REPT(h) == h > 128

\* A decoder that takes the header for the literal count itself.
DECODE_DIFF_OffByOne(h) == U8(h)

DECODE_DIFF(h) == U8(h + 1)

\* A decoder that takes the header for 256 - n.
DECODE_REPT_OffByOne(h) == U8(0 - h)

DECODE_REPT(h) == U8(1 - h)

srcLimit == 65535

\* ------------------------------------------------------------------------
\* Memory
\* ------------------------------------------------------------------------

\* *p for p = buf + (i - 1).  A read past the end of the buffer is undefined
\* behaviour: it yields w, a byte the caller of the model picks freely.
Peek(buf, i, w) == IF i <= Len(buf) THEN buf[i] ELSE w

\* The n bytes memcpy reads starting at index i.
Bytes(buf, i, n, w) == [k \in 1..n |-> Peek(buf, i + k - 1, w)]

\* The n bytes memset writes.
Fill(b, n) == [k \in 1..n |-> b]

\* ------------------------------------------------------------------------
\* packbits
\* ------------------------------------------------------------------------

\* A flush test that also refuses the chunk that fits exactly.
Overflows_AtLimit(destCount, need, destLimit) == destCount + need >= destLimit

\* The test guarding every flush: the chunk does not fit.
Overflows(destCount, need, destLimit) == destCount + need > destLimit

\* return 0 out of the middle of the function.
PackFail(st) == [st EXCEPT !.returned = TRUE, !.ret = 0]

\* Write a repeat chunk for a run of n bytes of value b.
EmitRept(st, n, b) ==
    [st EXCEPT !.destCount = U16(@ + 2),
               !.dest = @ \o <<ENCODE_REPT(n), b>>]

\* Write a literal chunk of the n bytes at index from of the source.
EmitDiff(st, source, from, n) ==
    [st EXCEPT !.destCount = U16(@ + 1 + n),
               !.dest = (@ \o <<ENCODE_DIFF(n)>>) \o SubSeq(source, from, from + n - 1)]

\* A run test without the minimum run length.
Worthwhile_AnyPair(bytesPending, runStart) == TRUE

\* A run test that asks for the minimum run length everywhere.
Worthwhile_OnlyLongRuns(bytesPending, runStart) ==
    bytesPending - runStart >= MIN_REPT

\* "This is a worthwhile run".
Worthwhile(bytesPending, runStart) ==
    (bytesPending - runStart >= MIN_REPT) \/ (runStart = 0)

\* Locals after the priming read of the first byte (srcCount # 0).
PackPrime(source, srcCount) ==
    [inRun |-> FALSE, destCount |-> 0, bytesPending |-> 1, pendingPtr |-> 1,
     runStart |-> 0, lastByte |-> source[1], srcPtr |-> 2, srcCount |-> srcCount,
     dest |-> <<>>, returned |-> FALSE, ret |-> 0]

\* A run branch that ends the run one byte early.
PackBodyRun_EndsEarly(s, currByte, destLimit) ==
    IF (currByte # s.lastByte) \/ (s.bytesPending >= MAX_REPT)
    THEN IF Overflows(s.destCount, 2, destLimit)
         THEN PackFail(s)
         ELSE [EmitRept(s, s.bytesPending - 1, s.lastByte)
                   EXCEPT !.bytesPending = 1, !.pendingPtr = s.srcPtr - 1,
                          !.runStart = 0, !.inRun = FALSE, !.lastByte = currByte]
    ELSE [s EXCEPT !.lastByte = currByte]

\* Body of the loop when inRun.
PackBodyRun(s, currByte, destLimit) ==
    IF (currByte # s.lastByte) \/ (s.bytesPending > MAX_REPT)
    THEN IF Overflows(s.destCount, 2, destLimit)
         THEN PackFail(s)
         ELSE [EmitRept(s, s.bytesPending - 1, s.lastByte)
                   EXCEPT !.bytesPending = 1, !.pendingPtr = s.srcPtr - 1,
                          !.runStart = 0, !.inRun = FALSE, !.lastByte = currByte]
    ELSE [s EXCEPT !.lastByte = currByte]

\* Body of the loop when not inRun.
PackBodyDiff(s, source, currByte, destLimit) ==
    IF s.bytesPending > MAX_DIFF
    THEN IF Overflows(s.destCount, 1 + MAX_DIFF, destLimit)
         THEN PackFail(s)
         ELSE [EmitDiff(s, source, s.pendingPtr, MAX_DIFF)
                   EXCEPT !.pendingPtr = @ + MAX_DIFF,
                          !.bytesPending = U16(@ - MAX_DIFF),
                          !.runStart = U16(s.bytesPending - MAX_DIFF - 1),
                          !.lastByte = currByte]
    ELSE IF currByte = s.lastByte
    THEN IF Worthwhile(s.bytesPending, s.runStart)
         THEN IF s.runStart # 0 /\ Overflows(s.destCount, 1 + s.runStart, destLimit)
              THEN PackFail(s)
              ELSE [(IF s.runStart # 0
                     THEN EmitDiff(s, source, s.pendingPtr, s.runStart)
                     ELSE s)
                        EXCEPT !.bytesPending = U16(@ - s.runStart),
                               !.inRun = TRUE, !.lastByte = currByte]
         ELSE [s EXCEPT !.lastByte = currByte]
    ELSE [s EXCEPT !.runStart = U16(s.bytesPending - 1), !.lastByte = currByte]

\* One pass of the while loop: read the next byte, then one of the branches.
PackBody(st, source, destLimit) ==
    LET currByte == source[st.srcPtr]
        s == [st EXCEPT !.srcPtr = @ + 1, !.bytesPending = U16(@ + 1)]
    IN  IF s.inRun
        THEN PackBodyRun(s, currByte, destLimit)
        ELSE PackBodyDiff(s, source, currByte, destLimit)

\* "Output the remainder" and return destCount.
PackRemainder(st, source, destLimit) ==
    IF st.inRun
    THEN IF Overflows(st.destCount, 2, destLimit)
         THEN PackFail(st)
         ELSE LET s == EmitRept(st, st.bytesPending, st.lastByte)
              IN  [s EXCEPT !.returned = TRUE, !.ret = s.destCount]
    ELSE IF Overflows(st.destCount, 1 + st.bytesPending, destLimit)
         THEN PackFail(st)
         ELSE LET s == EmitDiff(st, source, st.pendingPtr, st.bytesPending)
              IN  [s EXCEPT !.returned = TRUE, !.ret = s.destCount]

\* One pass of  while (--srcCount != 0) { body }  unless the function has
\* returned or the count has run out.
PackPass(st, source, destLimit) ==
    IF st.returned \/ st.srcCount = 1
    THEN st
    ELSE PackBody([st EXCEPT !.srcCount = U16(@ - 1)], source, destLimit)

\* n passes of the loop, split in halves to keep the evaluation shallow.
RECURSIVE PackPasses(_, _, _, _)
PackPasses(st, source, destLimit, n) ==
    IF n = 0 THEN st
    ELSE IF n = 1 THEN PackPass(st, source, destLimit)
    ELSE LET half == PackPasses(st, source, destLimit, n \div 2)
         IN  IF half.returned
             THEN half
             ELSE PackPasses(half, source, destLimit, n - (n \div 2))

\* The whole loop (it makes fewer than srcCount passes), then the remainder.
PackLoop(st, source, destLimit) ==
    LET s == PackPasses(st, source, destLimit, st.srcCount - 1)
    IN  IF s.returned THEN s ELSE PackRemainder(s, source, destLimit)

\* packbits(srcPtr, destPtr, srcCount, destLimit): the value returned and
\* the bytes written to the destination.
packbits(source, srcCount, destLimit) ==
    IF srcCount = 0
    THEN [ret |-> 0, dest |-> <<>>]
    ELSE LET st == PackLoop(PackPrime(source, srcCount), source, destLimit)
         IN  [ret |-> st.ret, dest |-> st.dest]

\* ------------------------------------------------------------------------
\* unpackbits
\* ------------------------------------------------------------------------

\* if (count > limit) count = limit;
Clamp(count, limit) == IF count > limit THEN limit ELSE count

\* Entry without the srcCount = 0 special case.
UnpackStart_NoSentinel(srcCount, destLimit) ==
    [srcPtr |-> 1, srcRemaining |-> srcCount, destRemaining |-> destLimit, dest |-> <<>>]

\* Locals on entry to the loop.
UnpackStart(srcCount, destLimit) ==
    [srcPtr |-> 1,
     srcRemaining |-> IF srcCount # 0 THEN srcCount ELSE srcLimit,
     destRemaining |-> destLimit,
     dest |-> <<>>]

\* The IS_DIFF branch.
UnpackDiff(s, source, hdr, w) ==
    LET count == Clamp(Clamp(DECODE_DIFF(hdr), s.destRemaining), s.srcRemaining)
    IN  IF count # 0
        THEN [s EXCEPT !.dest = @ \o Bytes(source, s.srcPtr, count, w),
                       !.srcPtr = @ + count,
                       !.srcRemaining = U16(@ - count),
                       !.destRemaining = U16(@ - count)]
        ELSE s

\* A repeat branch that takes one byte, not count, off destRemaining.
UnpackRept_CountsOne(s, source, hdr, w) ==
    LET count == Clamp(DECODE_REPT(hdr), s.destRemaining)
    IN  IF (count # 0) /\ (s.srcRemaining # 0)
        THEN [s EXCEPT !.dest = @ \o Fill(Peek(source, s.srcPtr, w), count),
                       !.srcPtr = @ + 1,
                       !.srcRemaining = U16(@ - 1),
                       !.destRemaining = U16(@ - 1)]
        ELSE s

\* The IS_REPT branch.
UnpackRept(s, source, hdr, w) ==
    LET count == Clamp(DECODE_REPT(hdr), s.destRemaining)
    IN  IF (count # 0) /\ (s.srcRemaining # 0)
        THEN [s EXCEPT !.dest = @ \o Fill(Peek(source, s.srcPtr, w), count),
                       !.srcPtr = @ + 1,
                       !.srcRemaining = U16(@ - 1),
                       !.destRemaining = U16(@ - count)]
        ELSE s

\* One pass of the while loop: read the header, then one of the branches.
UnpackBody(st, source, w) ==
    LET hdr == Peek(source, st.srcPtr, w)
        s == [st EXCEPT !.srcPtr = @ + 1, !.srcRemaining = U16(@ - 1)]
    IN  IF IS_DIFF(hdr) THEN UnpackDiff(s, source, hdr, w)
        ELSE IF IS_REPT(hdr) THEN UnpackRept(s, source, hdr, w)
        ELSE s

\* Every byte still to be read lies past the buffer and reads as the no-op
\* header: each remaining pass only steps srcPtr and counts srcRemaining down.
OnlyNoOpsLeft(st, source, w) ==
    (st.srcPtr > Len(source)) /\ ~IS_DIFF(w) /\ ~IS_REPT(w)

\* One pass of  while ((srcRemaining != 0) && (destRemaining != 0)) { body }
\* unless the loop has ended.
UnpackPass(st, source, w) ==
    IF (st.srcRemaining # 0) /\ (st.destRemaining # 0)
    THEN IF OnlyNoOpsLeft(st, source, w)
         THEN [st EXCEPT !.srcPtr = @ + st.srcRemaining, !.srcRemaining = 0]
         ELSE UnpackBody(st, source, w)
    ELSE st

\* n passes of the loop, split in halves to keep the evaluation shallow.
RECURSIVE UnpackPasses(_, _, _, _)
UnpackPasses(st, source, w, n) ==
    IF (n = 0) \/ (st.srcRemaining = 0) \/ (st.destRemaining = 0) THEN st
    ELSE IF n = 1 THEN UnpackPass(st, source, w)
    ELSE LET half == UnpackPasses(st, source, w, n \div 2)
         IN  IF (half.srcRemaining = 0) \/ (half.destRemaining = 0)
             THEN half
             ELSE UnpackPasses(half, source, w, n - (n \div 2))

\* The whole loop: every pass takes at least one byte off srcRemaining, so it
\* makes at most srcRemaining passes.
UnpackLoop(st, source, w) == UnpackPasses(st, source, w, st.srcRemaining)

\* unpackbits without the srcCount = 0 special case in what it returns.
unpackbits_ReturnsWritten(source, srcCount, destLimit, w) ==
    LET st == UnpackLoop(UnpackStart(srcCount, destLimit), source, w)
    IN  [ret |-> U16(destLimit - st.destRemaining),
         dest |-> st.dest,
         srcUsed |-> st.srcPtr - 1]

\* unpackbits(srcPtr, destPtr, srcCount, destLimit): the value returned, the
\* bytes written to the destination and the number of source bytes read.
unpackbits(source, srcCount, destLimit, w) ==
    LET st == UnpackLoop(UnpackStart(srcCount, destLimit), source, w)
    IN  [ret |-> IF srcCount = 0
                 THEN U16(srcLimit - st.srcRemaining)
                 ELSE U16(destLimit - st.destRemaining),
         dest |-> st.dest,
         srcUsed |-> st.srcPtr - 1]

\* ------------------------------------------------------------------------
\* unpackbits_window
\* ------------------------------------------------------------------------

\* Locals on entry to the loop.
WindowStart(srcCount, destLimit) ==
    [srcPtr |-> 1,
     srcRemaining |-> IF srcCount # 0 THEN srcCount ELSE srcLimit,
     destRemaining |-> destLimit,
     destPos |-> 0,
     dest |-> <<>>]

\* A window test that leaves out a run that begins at the start of the window.
InWindow_PastStart(destPos, count, destStartByte, destLimit) ==
    (destPos > destStartByte) /\ (destPos < destStartByte + destLimit)

\* "Check if the decoded bytes lie within the specified window".
InWindow(destPos, count, destStartByte, destLimit) ==
    (destPos + count > destStartByte) /\ (destPos < destStartByte + destLimit)

\* uint16_t offset = destPos >= destStartByte ? 0 : destStartByte - destPos;
WindowOffset(destPos, destStartByte) ==
    IF destPos >= destStartByte THEN 0 ELSE U16(destStartByte - destPos)

\* uint16_t copyCount = count - offset, clamped to destRemaining.
WindowCopyCount(count, offset, destRemaining) ==
    Clamp(U16(count - offset), destRemaining)

\* The IS_DIFF branch.
WindowDiff(s, source, hdr, destStartByte, destLimit, w) ==
    LET count == Clamp(Clamp(DECODE_DIFF(hdr), s.destRemaining), s.srcRemaining)
        offset == WindowOffset(s.destPos, destStartByte)
        copyCount == WindowCopyCount(count, offset, s.destRemaining)
        copied == IF InWindow(s.destPos, count, destStartByte, destLimit)
                  THEN [s EXCEPT !.dest = @ \o Bytes(source, s.srcPtr + offset, copyCount, w),
                                 !.destRemaining = U16(@ - copyCount)]
                  ELSE s
    IN  IF count # 0
        THEN [copied EXCEPT !.srcPtr = @ + count,
                            !.srcRemaining = U16(@ - count),
                            !.destPos = U16(@ + count)]
        ELSE s

\* The IS_REPT branch.
WindowRept(s, source, hdr, destStartByte, destLimit, w) ==
    LET count == Clamp(DECODE_REPT(hdr), s.destRemaining)
        offset == WindowOffset(s.destPos, destStartByte)
        copyCount == WindowCopyCount(count, offset, s.destRemaining)
        copied == IF InWindow(s.destPos, count, destStartByte, destLimit)
                  THEN [s EXCEPT !.dest = @ \o Fill(Peek(source, s.srcPtr, w), copyCount),
                                 !.destRemaining = U16(@ - copyCount)]
                  ELSE s
    IN  IF (count # 0) /\ (s.srcRemaining # 0)
        THEN [copied EXCEPT !.srcPtr = @ + 1,
                            !.srcRemaining = U16(@ - 1),
                            !.destPos = U16(@ + count)]
        ELSE s

\* One pass of the while loop: read the header, then one of the branches.
WindowBody(st, source, destStartByte, destLimit, w) ==
    LET hdr == Peek(source, st.srcPtr, w)
        s == [st EXCEPT !.srcPtr = @ + 1, !.srcRemaining = U16(@ - 1)]
    IN  IF IS_DIFF(hdr) THEN WindowDiff(s, source, hdr, destStartByte, destLimit, w)
        ELSE IF IS_REPT(hdr) THEN WindowRept(s, source, hdr, destStartByte, destLimit, w)
        ELSE s

\* One pass of  while ((srcRemaining != 0) && (destRemaining != 0)) { body }
\* unless the loop has ended.
WindowPass(st, source, destStartByte, destLimit, w) ==
    IF (st.srcRemaining # 0) /\ (st.destRemaining # 0)
    THEN IF OnlyNoOpsLeft(st, source, w)
         THEN [st EXCEPT !.srcPtr = @ + st.srcRemaining, !.srcRemaining = 0]
         ELSE WindowBody(st, source, destStartByte, destLimit, w)
    ELSE st

\* n passes of the loop, split in halves to keep the evaluation shallow.
RECURSIVE WindowPasses(_, _, _, _, _, _)
WindowPasses(st, source, destStartByte, destLimit, w, n) ==
    IF (n = 0) \/ (st.srcRemaining = 0) \/ (st.destRemaining = 0) THEN st
    ELSE IF n = 1 THEN WindowPass(st, source, destStartByte, destLimit, w)
    ELSE LET half == WindowPasses(st, source, destStartByte, destLimit, w, n \div 2)
         IN  IF (half.srcRemaining = 0) \/ (half.destRemaining = 0)
             THEN half
             ELSE WindowPasses(half, source, destStartByte, destLimit, w, n - (n \div 2))

\* The whole loop: at most srcRemaining passes.
WindowLoop(st, source, destStartByte, destLimit, w) ==
    WindowPasses(st, source, destStartByte, destLimit, w, st.srcRemaining)

\* unpackbits_window(srcPtr, destPtr, srcCount, destStartByte, destLimit).
unpackbits_window(source, srcCount, destStartByte, destLimit, w) ==
    LET st == WindowLoop(WindowStart(srcCount, destLimit), source,
                         destStartByte, destLimit, w)
    IN  [ret |-> U16(destLimit - st.destRemaining),
         dest |-> st.dest,
         srcUsed |-> st.srcPtr - 1]

\* ------------------------------------------------------------------------
\* Inputs
\* ------------------------------------------------------------------------

RECURSIVE Concat(_)
Concat(ps) == IF ps = <<>> THEN <<>> ELSE Head(ps) \o Concat(Tail(ps))

\* All concatenations of at most MaxPieces pieces.
Built(pieces) ==
    { Concat(ps) : ps \in UNION { [1..m -> pieces] : m \in 0..MaxPieces } }

\* Plain data: runs of 1, 2, 3 and 128 equal bytes, and a ramp of 128 bytes
\* in which no two neighbours are equal.  Neighbouring pieces may merge into
\* longer runs (0 before the ramp, 127 after it).
Run(b, n) == [k \in 1..n |-> b]

Ramp == [k \in 1..128 |-> k - 1]

PlainPieces == { Run(b, n) : b \in {0, 127}, n \in {1, 2, 3, 128} } \cup {Ramp}

PlainData == Built(PlainPieces)

\* Packed streams: literal chunks of 1, 3 and 128 bytes, repeat chunks of 3
\* and 128 bytes and the no-op header, in any order.
Payload(n) == [k \in 1..n |-> 10 + k]

Lit(n) == <<n - 1>> \o Payload(n)

Rep(n, b) == <<257 - n, b>>

StreamPieces == {Lit(1), Lit(3), Lit(128), Rep(3, 200), Rep(128, 201), <<128>>}

Streams == Built(StreamPieces)

\* Bytes a read past the end of a buffer may yield.
WildBytes == {0, 127, 128, 129, 255}

\* The bytes to try for a call whose run with the byte 0 is r: a call that
\* read nothing past the buffer of len bytes does not depend on the choice.
WildFor(r, len) == IF r.srcUsed <= len THEN {0} ELSE WildBytes

\* Destination limits tried for a source of n bytes: the small ones, one that
\* holds a full literal chunk and no more, the documented worst case and the
\* largest value of the type.
WorstCase(n) == n + ((n + 127) \div 128)

PackLimits(n) == (0..MaxLimit) \cup {130, WorstCase(n), 65535}

UnpackLimits == (0..MaxLimit) \cup {127, 128, 129}

\* Source counts tried for a buffer of n bytes: the whole buffer, a buffer cut
\* short, a single byte, and 0.
SrcCounts(n) == {0, 1, n - 1, n} \cap (0..n)

\* Source counts tried for a window: the whole buffer and a buffer cut short.
WindowSrcCounts(n) == {n - 1, n} \cap (1..n)

WindowStarts == {0, 1, 2, 127, 128}

WindowLimits == {0, 1, 2, 128}

BlockSizes == {1, 2, 3, 128}

\* ------------------------------------------------------------------------
\* The caller
\* ------------------------------------------------------------------------

VARIABLES
    data,       \* the bytes the caller starts from: plain data or a packed stream
    pc,         \* what the caller has done so far
    call,       \* the arguments of the last call
    pk,         \* what the call of packbits returned and wrote, and its destLimit
    res,        \* what the last call of unpackbits or unpackbits_window returned, wrote and read
    blocks      \* block-wise packing and unpacking of data

vars == <<data, pc, call, pk, res, blocks>>

NoCall == [srcCount |-> 0, destStartByte |-> 0, destLimit |-> 0]

NoPack == [ret |-> 0, dest |-> <<>>, destLimit |-> 0]

NoResult == [ret |-> 0, dest |-> <<>>, srcUsed |-> 0]

NoBlocks == [size |-> 0, lens |-> <<>>, stream |-> <<>>, offset |-> 0, decoded |-> 0]

Init ==
    /\ \/ pc = "plain" /\ data \in PlainData
       \/ pc = "stream" /\ data \in Streams
    /\ call = NoCall
    /\ pk = NoPack
    /\ res = NoResult
    /\ blocks = NoBlocks

\* The caller packs the plain data into a destination of destLimit bytes.
CallPackbits ==
    /\ pc = "plain"
    /\ \E destLimit \in PackLimits(Len(data)) :
          /\ call' = [srcCount |-> Len(data), destStartByte |-> 0, destLimit |-> destLimit]
          /\ LET r == packbits(data, Len(data), destLimit)
             IN  pk' = [ret |-> r.ret, dest |-> r.dest, destLimit |-> destLimit]
    /\ pc' = "packed"
    /\ UNCHANGED <<data, res, blocks>>

\* The caller unpacks what packbits wrote, passing the value packbits
\* returned as srcCount, into a destination that can hold the plain data.
CallUnpackbitsOnPacked ==
    /\ pc = "packed"
    /\ (pk.ret # 0) \/ (Len(data) = 0)
    /\ \E destLimit \in {Len(data), Len(data) + 1} :
          /\ call' = [srcCount |-> pk.ret, destStartByte |-> 0, destLimit |-> destLimit]
          /\ \E w \in WildFor(unpackbits(pk.dest, pk.ret, destLimit, 0), Len(pk.dest)) :
                res' = unpackbits(pk.dest, pk.ret, destLimit, w)
    /\ pc' = "roundtrip"
    /\ UNCHANGED <<data, pk, blocks>>

\* The caller unpacks a stream.
CallUnpackbits ==
    /\ pc = "stream"
    /\ \E srcCount \in SrcCounts(Len(data)), destLimit \in UnpackLimits :
          /\ call' = [srcCount |-> srcCount, destStartByte |-> 0, destLimit |-> destLimit]
          /\ \E w \in WildFor(unpackbits(data, srcCount, destLimit, 0), Len(data)) :
                res' = unpackbits(data, srcCount, destLimit, w)
    /\ pc' = "unpacked"
    /\ UNCHANGED <<data, pk, blocks>>

\* The caller unpacks a window of a stream.
CallUnpackbitsWindow ==
    /\ pc = "stream"
    /\ \E srcCount \in WindowSrcCounts(Len(data)), destStartByte \in WindowStarts,
          destLimit \in WindowLimits :
          /\ call' = [srcCount |-> srcCount, destStartByte |-> destStartByte,
                      destLimit |-> destLimit]
          /\ \E w \in WildFor(unpackbits_window(data, srcCount, destStartByte, destLimit, 0),
                               Len(data)) :
                res' = unpackbits_window(data, srcCount, destStartByte, destLimit, w)
    /\ pc' = "windowed"
    /\ UNCHANGED <<data, pk, blocks>>

\* Block number i (from 1) of the plain data cut into blocks of size bytes.
Block(i, size) == SubSeq(data, (i - 1) * size + 1, i * size)

\* The caller decides to pack the plain data block by block.
StartBlocks ==
    /\ pc = "plain"
    /\ Len(data) > 0
    /\ \E size \in BlockSizes :
          /\ Len(data) % size = 0
          /\ Len(data) <= MaxBlocks * size
          /\ blocks' = [NoBlocks EXCEPT !.size = size]
    /\ pc' = "packing"
    /\ UNCHANGED <<data, call, pk, res>>

\* The caller packs the next block into a destination of the documented
\* worst-case size and appends what was written to the stream.
PackBlock ==
    /\ pc = "packing"
    /\ LET i == Len(blocks.lens) + 1
           r == packbits(Block(i, blocks.size), blocks.size, WorstCase(blocks.size))
       IN  /\ call' = [srcCount |-> blocks.size, destStartByte |-> 0,
                       destLimit |-> WorstCase(blocks.size)]
           /\ pk' = [ret |-> r.ret, dest |-> r.dest, destLimit |-> WorstCase(blocks.size)]
           /\ blocks' = [blocks EXCEPT !.lens = Append(@, r.ret), !.stream = @ \o r.dest]
           /\ pc' = IF i * blocks.size = Len(data) THEN "unpacking" ELSE "packing"
    /\ UNCHANGED <<data, res>>

\* The caller unpacks the next block: srcCount = 0, a destination of one
\* block, the source pointer advanced by what the calls before returned.
UnpackBlock ==
    /\ pc = "unpacking"
    /\ blocks.decoded < Len(blocks.lens)
    /\ \E w \in WildFor(unpackbits(SubSeq(blocks.stream, blocks.offset + 1, Len(blocks.stream)),
                                   0, blocks.size, 0),
                        Len(blocks.stream) - blocks.offset) :
          LET r == unpackbits(SubSeq(blocks.stream, blocks.offset + 1, Len(blocks.stream)),
                              0, blocks.size, w)
          IN  /\ call' = [srcCount |-> 0, destStartByte |-> 0, destLimit |-> blocks.size]
              /\ res' = r
              /\ blocks' = [blocks EXCEPT !.offset = @ + r.ret, !.decoded = @ + 1]
    /\ UNCHANGED <<data, pc, pk>>

Next ==
    \/ CallPackbits
    \/ CallUnpackbitsOnPacked
    \/ CallUnpackbits
    \/ CallUnpackbitsWindow
    \/ StartBlocks
    \/ PackBlock
    \/ UnpackBlock

Spec == Init /\ [][Next]_vars

\* ------------------------------------------------------------------------
\* The format, as the header comment of packbits.c states it
\* ------------------------------------------------------------------------

\* s is a concatenation of complete literal chunks (header 0..127, then
\* header + 1 bytes) and complete repeat chunks (header 129..255, then 1 byte).
RECURSIVE WellFormed(_)
WellFormed(s) ==
    IF s = <<>> THEN TRUE
    ELSE IF s[1] < 128
         THEN (Len(s) >= s[1] + 2) /\ WellFormed(SubSeq(s, s[1] + 3, Len(s)))
    ELSE IF s[1] > 128
         THEN (Len(s) >= 2) /\ WellFormed(SubSeq(s, 3, Len(s)))
    ELSE FALSE

\* The bytes a well-formed stream stands for: 1 + n literal bytes for a header
\* n in 0..127, 257 - n copies of the next byte for a header n in 129..255.
RECURSIVE Logical(_)
Logical(s) ==
    IF s = <<>> THEN <<>>
    ELSE IF s[1] < 128
         THEN SubSeq(s, 2, s[1] + 2) \o Logical(SubSeq(s, s[1] + 3, Len(s)))
         ELSE [k \in 1..(257 - s[1]) |-> s[2]] \o Logical(SubSeq(s, 3, Len(s)))

\* ------------------------------------------------------------------------
\* C1  Round trip
\* ------------------------------------------------------------------------

\* C1 as stated: for every byte sequence S of at most 0xFFFF bytes, packing S
\* with destLimit = len(S) + ceil(len(S)/128) and unpacking what was written
\* with srcCount = the value packbits returned and destLimit >= len(S) writes
\* exactly S and returns len(S).
C1_RoundTripEverySource ==
    (pc = "roundtrip" /\ pk.destLimit = WorstCase(Len(data)))
        => (res.dest = data /\ res.ret = Len(data))

\* C1 amended: the same for every S that is not empty and whose worst-case
\* size len(S) + ceil(len(S)/128) still fits the 16-bit destLimit.
C1_RoundTrip ==
    (/\ pc = "roundtrip"
     /\ pk.destLimit = WorstCase(Len(data))
     /\ Len(data) >= 1
     /\ WorstCase(Len(data)) <= 65535)
        => (res.dest = data /\ res.ret = Len(data))

\* A source of runs and literals longer than one chunk went round.
C1_Witness ==
    /\ pc = "roundtrip"
    /\ pk.destLimit = WorstCase(Len(data))
    /\ Len(data) > 128
    /\ pk.ret < Len(data)
    /\ pk.ret > 4
    /\ res.dest = data
    /\ res.ret = Len(data)

\* ------------------------------------------------------------------------
\* C2  Windowed decode
\* ------------------------------------------------------------------------

\* C2: for every well-formed stream and every window [start, start + len)
\* inside its logical output, unpackbits_window returns len and writes the
\* bytes of the logical output at offsets start .. start + len - 1.
C2_WindowEquivalence ==
    (/\ pc = "windowed"
     /\ WellFormed(data)
     /\ call.srcCount = Len(data)
     /\ call.destStartByte + call.destLimit <= Len(Logical(data)))
        => (/\ res.ret = call.destLimit
            /\ res.dest = SubSeq(Logical(data), call.destStartByte + 1,
                                 call.destStartByte + call.destLimit))

\* ------------------------------------------------------------------------
\* C3  Bounded overhead
\* ------------------------------------------------------------------------

\* The complete encoding: what packbits writes when nothing limits it.
Complete(source) == packbits(source, Len(source), 65535)

\* C3: packbits called on a non-empty source of srcCount bytes with a
\* destLimit of at least srcCount + (srcCount + 127) / 128 does not return 0,
\* and the encoding it writes is at most srcCount + ceil(srcCount/128) bytes
\* long, however large the destination is.
C3_BoundedOverhead ==
    (pc = "packed" /\ Len(data) >= 1 /\ pk.destLimit >= WorstCase(Len(data)))
        => (/\ pk.ret # 0
            /\ pk.ret <= WorstCase(Len(data))
            /\ Len(pk.dest) = pk.ret)

\* A source of more than one chunk whose encoding is exactly as long as the
\* bound, packed into a destination of exactly that size.
C3_Witness ==
    /\ pc = "packed"
    /\ Len(data) > 128
    /\ pk.destLimit = WorstCase(Len(data))
    /\ pk.ret = WorstCase(Len(data))

\* ------------------------------------------------------------------------
\* C4  The encoder fails closed
\* ------------------------------------------------------------------------

\* C4: for a non-empty source and any destLimit, packbits writes only below
\* destLimit; it returns 0 exactly when the complete encoding is longer than
\* destLimit; otherwise it returns the length of the complete encoding, which
\* is at least 2, and has written the complete encoding.
C4_FailsClosed ==
    (pc = "packed" /\ Len(data) >= 1)
        => LET whole == Complete(data)
           IN  /\ Len(pk.dest) <= pk.destLimit
               /\ (pk.ret = 0) <=> (Len(whole.dest) > pk.destLimit)
               /\ (pk.ret # 0) => (/\ pk.ret = Len(whole.dest)
                                   /\ pk.ret >= 2
                                   /\ pk.dest = whole.dest)

\* packbits gave up after it had already written a chunk.
C4_Witness ==
    /\ pc = "packed"
    /\ Len(data) >= 1
    /\ pk.ret = 0
    /\ Len(pk.dest) >= 2
    /\ Len(pk.dest) <= pk.destLimit
    /\ Len(Complete(data).dest) = pk.destLimit + 1

\* ------------------------------------------------------------------------
\* C5  What unpackbits returns
\* ------------------------------------------------------------------------

RECURSIVE Sum(_)
Sum(ns) == IF ns = <<>> THEN 0 ELSE Head(ns) + Sum(Tail(ns))

\* C7: after every block-wise call of unpackbits (srcCount = 0, destLimit =
\* the block size, the source advanced by the values returned so far) the
\* destination holds the block of that number, the value returned is the
\* packed length of that block, and no source byte past that block was read.
C7_BlockwiseDecode ==
    (pc = "unpacking" /\ blocks.decoded >= 1)
        => (/\ res.dest = Block(blocks.decoded, blocks.size)
            /\ res.ret = blocks.lens[blocks.decoded]
            /\ res.srcUsed = blocks.lens[blocks.decoded]
            /\ blocks.offset = Sum(SubSeq(blocks.lens, 1, blocks.decoded)))

\* The last of three blocks of 128 bytes, one of them packed to a repeat
\* chunk and one to a literal chunk, has been unpacked.
C7_Witness ==
    /\ pc = "unpacking"
    /\ blocks.size = 128
    /\ blocks.decoded = 3
    /\ \E i \in 1..3 : blocks.lens[i] = 2
    /\ \E i \in 1..3 : blocks.lens[i] = 129
    /\ res.dest = Block(3, 128)
    /\ blocks.offset = Len(blocks.stream)

\* ------------------------------------------------------------------------
\* C8  Empty input
\* ------------------------------------------------------------------------

\* C8 as stated: packbits with srcCount = 0 writes nothing and returns 0 for
\* every destLimit; unpackbits with srcCount = 0 on an empty source writes
\* nothing, reads nothing and returns 0 for every destLimit.
C8_EmptyInputEveryLimit ==
    /\ (pc = "packed" /\ data = <<>>) => (pk.ret = 0 /\ pk.dest = <<>>)
    /\ (pc = "unpacked" /\ data = <<>>)
           => (res.ret = 0 /\ res.dest = <<>> /\ res.srcUsed = 0)

\* C8 amended: packbits as stated; unpackbits with srcCount = 0 on an empty
\* source writes nothing, reads nothing and returns 0 when destLimit = 0; for
\* destLimit >= 1 it reads at least one byte past the empty source and returns
\* the number of source bytes it used.
C8_EmptyInput ==
    /\ (pc = "packed" /\ data = <<>>) => (pk.ret = 0 /\ pk.dest = <<>>)
    /\ (pc = "unpacked" /\ data = <<>> /\ call.destLimit = 0)
           => (res.ret = 0 /\ res.dest = <<>> /\ res.srcUsed = 0)
    /\ (pc = "unpacked" /\ data = <<>> /\ call.destLimit >= 1)
           => (res.srcUsed >= 1 /\ res.ret = res.srcUsed)

\* unpackbits was called on the empty source with room in the destination.
C8_Witness ==
    /\ pc = "unpacked"
    /\ data = <<>>
    /\ call.srcCount = 0
    /\ call.destLimit >= 1
    /\ res.srcUsed >= 1

\* ------------------------------------------------------------------------
\* C9  Runs
\* ------------------------------------------------------------------------

Ceil128(n) == (n + 127) \div 128

AllEqual(s) == \A i \in 1..Len(s) : s[i] = s[1]

\* C9: a source of N >= 3 copies of one byte, packed into a destination that
\* is large enough, gives exactly ceil(N/128) * 2 bytes.
C9_RunCompression ==
    (/\ pc = "packed"
     /\ Len(data) >= 3
     /\ AllEqual(data)
     /\ pk.destLimit >= 2 * Ceil128(Len(data)))
        => (pk.ret = 2 * Ceil128(Len(data)) /\ Len(pk.dest) = pk.ret)

\* A run of 257 bytes: two full repeat chunks and a chunk for the last byte.
C9_Witness ==
    /\ pc = "packed"
    /\ Len(data) = 257
    /\ AllEqual(data)
    /\ pk.ret = 6

\* ------------------------------------------------------------------------
\* C10  No runs
\* ------------------------------------------------------------------------

NoAdjacentEqual(s) == \A i \in 1..(Len(s) - 1) : s[i] # s[i + 1]

\* The source cut into literal chunks of 128 bytes and one for the rest.
RECURSIVE LiteralChunks(_)
LiteralChunks(s) ==
    IF s = <<>> THEN <<>>
    ELSE LET n == IF Len(s) > 128 THEN 128 ELSE Len(s)
         IN  (<<n - 1>> \o SubSeq(s, 1, n)) \o LiteralChunks(SubSeq(s, n + 1, Len(s)))

\* C10: a source of N >= 1 bytes without two equal neighbours, packed into a
\* destination that is large enough, gives exactly N + ceil(N/128) bytes: one
\* literal chunk per 128 source bytes and one for the remainder.
C10_NoRunWorstCase ==
    (/\ pc = "packed"
     /\ Len(data) >= 1
     /\ NoAdjacentEqual(data)
     /\ pk.destLimit >= WorstCase(Len(data)))
        => (/\ pk.ret = Len(data) + Ceil128(Len(data))
            /\ pk.dest = LiteralChunks(data))

\* 257 bytes without a run: two full literal chunks and one of a single byte.
C10_Witness ==
    /\ pc = "packed"
    /\ Len(data) = 257
    /\ NoAdjacentEqual(data)
    /\ pk.ret = 260

\* ------------------------------------------------------------------------
\* C11  Well-formed output
\* ------------------------------------------------------------------------

\* The run lengths of the chunks of a well-formed stream, in order.
RECURSIVE ChunkRuns(_)
ChunkRuns(s) ==
    IF s = <<>> THEN <<>>
    ELSE IF s[1] < 128
         THEN <<s[1] + 1>> \o ChunkRuns(SubSeq(s, s[1] + 3, Len(s)))
         ELSE <<257 - s[1]>> \o ChunkRuns(SubSeq(s, 3, Len(s)))

\* The header bytes of a well-formed stream, in order.
RECURSIVE ChunkHeaders(_)
ChunkHeaders(s) ==
    IF s = <<>> THEN <<>>
    ELSE IF s[1] < 128
         THEN <<s[1]>> \o ChunkHeaders(SubSeq(s, s[1] + 3, Len(s)))
         ELSE <<s[1]>> \o ChunkHeaders(SubSeq(s, 3, Len(s)))

\* C11: whenever packbits succeeds on a non-empty source, what it wrote is a
\* concatenation of complete chunks, no header is 128, a literal chunk stands
\* for 1..128 bytes, a repeat chunk for 2..128 bytes, the chunk lengths sum to
\* srcCount and the bytes returned are the bytes written.
C11_WellFormedOutput ==
    (pc = "packed" /\ Len(data) >= 1 /\ pk.ret # 0)
        => (/\ pk.ret = Len(pk.dest)
            /\ WellFormed(pk.dest)
            /\ LET hdrs == ChunkHeaders(pk.dest)
                   runs == ChunkRuns(pk.dest)
               IN  /\ \A k \in 1..Len(hdrs) :
                          /\ hdrs[k] # 128
                          /\ hdrs[k] < 128 => runs[k] \in 1..128
                          /\ hdrs[k] > 128 => (runs[k] \in 2..128 /\ hdrs[k] = 257 - runs[k])
                   /\ Sum(runs) = Len(data))

\* A full literal chunk followed by a full repeat chunk: the ramp 0..127 and
\* then 128 equal bytes.
C11_Witness ==
    /\ pc = "packed"
    /\ pk.ret = 131
    /\ Len(data) = 256
    /\ pk.dest[1] = 127
    /\ pk.dest[130] = 129

\* ------------------------------------------------------------------------
\* C12  Decoding malformed input
\* ------------------------------------------------------------------------

Min(a, b) == IF a < b THEN a ELSE b

\* What decoding the byte string s into room bytes must give: a header 128
\* stands for nothing, a literal header for the payload bytes that are
\* present, a repeat header without its byte for nothing, and every chunk is
\* cut to the room that is left.
RECURSIVE Tolerant(_, _)
Tolerant(s, room) ==
    IF s = <<>> \/ room = 0 THEN <<>>
    ELSE IF s[1] = 128 THEN Tolerant(Tail(s), room)
    ELSE IF s[1] < 128
         THEN LET n == Min(Min(s[1] + 1, Len(s) - 1), room)
              IN  SubSeq(s, 2, n + 1) \o Tolerant(SubSeq(s, n + 2, Len(s)), room - n)
    ELSE IF Len(s) = 1 THEN <<>>
    ELSE LET n == Min(257 - s[1], room)
         IN  [k \in 1..n |-> s[2]] \o Tolerant(SubSeq(s, 3, Len(s)), room - n)

\* C12: for every source, every srcCount >= 1 and every destLimit, unpackbits
\* reads no source byte at or beyond srcCount, writes no more than destLimit
\* bytes, returns the number of bytes written, and writes what the chunks
\* present in the first srcCount bytes stand for: nothing for a header 128,
\* nothing for a repeat header that is the last byte, the payload present for
\* a literal header that declares more, each cut to the room left.
C12_MalformedInput ==
    (pc = "unpacked" /\ call.srcCount >= 1)
        => (/\ res.srcUsed <= call.srcCount
            /\ Len(res.dest) <= call.destLimit
            /\ res.ret = Len(res.dest)
            /\ res.dest = Tolerant(SubSeq(data, 1, call.srcCount), call.destLimit))

\* A header 128, then a literal header that declares three bytes of which two
\* are present: the two bytes are written.
C12_Witness ==
    /\ pc = "unpacked"
    /\ Len(data) = 5
    /\ data[1] = 128
    /\ data[2] = 2
    /\ call.srcCount = 4
    /\ call.destLimit >= 3
    /\ res.ret = 2
    /\ res.dest = SubSeq(data, 3, 4)
    /\ res.srcUsed = 4

\* ------------------------------------------------------------------------
\* C13  Minimum-run threshold
\* ------------------------------------------------------------------------

\* The number of source bytes that the chunks before chunk k stand for.
ChunkOffset(runs, k) == Sum(SubSeq(runs, 1, k - 1))

\* Chunk k starts a pending region: it is the first chunk, or it follows a
\* repeat chunk or a full literal chunk of 128 bytes.
AtPendingStart(hdrs, k) == (k = 1) \/ (hdrs[k - 1] > 128) \/ (hdrs[k - 1] = 127)

\* C13: in what packbits wrote for a source it packed completely, a repeat
\* chunk that directly follows a literal chunk of fewer than 128 bytes stands
\* for a run of at least 3 bytes, and where the source has two equal bytes
\* at the start of a pending region (start of input, after a repeat chunk,
\* after a full literal chunk) the chunk there is a repeat chunk, of length 2
\* exactly when the source has no third equal byte there.
C13_MinimumRun ==
    (pc = "packed" /\ Len(data) >= 1 /\ pk.ret # 0)
        => (/\ WellFormed(pk.dest)
            /\ Logical(pk.dest) = data
            /\ LET hdrs == ChunkHeaders(pk.dest)
                   runs == ChunkRuns(pk.dest)
               IN  \A k \in 1..Len(hdrs) :
                       LET off == ChunkOffset(runs, k)
                       IN  /\ (k > 1 /\ hdrs[k] > 128 /\ hdrs[k - 1] < 127)
                                => runs[k] >= MIN_REPT
                           /\ (/\ AtPendingStart(hdrs, k)
                               /\ off + 2 <= Len(data)
                               /\ data[off + 1] = data[off + 2])
                                => (/\ hdrs[k] > 128
                                    /\ (runs[k] = 2) <=>
                                           (\/ off + 2 = Len(data)
                                            \/ data[off + 3] # data[off + 1])))

\* A pair at the start of the input becomes a repeat chunk of 2; the same
\* pair behind one pending byte stays in the literal chunk.
C13_Witness ==
    /\ pc = "packed"
    /\ data = <<0, 0, 127, 0, 0>>
    /\ pk.dest = <<255, 0, 2, 127, 0, 0>>
    /\ pk.ret = 6

\* ------------------------------------------------------------------------
\* C14  The window at offset 0
\* ------------------------------------------------------------------------

\* C14: for every source, every srcCount >= 1 and every destLimit,
\* unpackbits_window with destStartByte = 0 writes the bytes and returns the
\* value of unpackbits called with the same source, srcCount and destLimit
\* (neither call reads beyond the source, so no byte beyond it matters).
C14_WindowAtZero ==
    (pc = "windowed" /\ call.srcCount >= 1 /\ call.destStartByte = 0)
        => LET plain == unpackbits(data, call.srcCount, call.destLimit, 0)
           IN  /\ plain.srcUsed <= Len(data)
               /\ res.srcUsed = plain.srcUsed
               /\ res.ret = plain.ret
               /\ res.dest = plain.dest

\* A window of 128 bytes at offset 0 filled from more than one chunk: a
\* literal chunk of three bytes, then the start of the next chunk.
C14_Witness ==
    /\ pc = "windowed"
    /\ call.destStartByte = 0
    /\ call.srcCount = Len(data)
    /\ call.destLimit = 128
    /\ WellFormed(data)
    /\ data[1] = 2
    /\ res.ret = 128
    /\ res.dest = SubSeq(Logical(data), 1, 128)

====
